---- MODULE Spec2Model ----
(***************************************************************************)
(* Model of SudokuAI.compute_best_move (src/team29_A0/sudokuai.py): the    *)
(* legality oracle, the move-ordering and leaf heuristics, the recursive   *)
(* alpha-beta search run as an explicit stack machine, the iterative       *)
(* deepening driver with its wall-clock budget, and the propose_move       *)
(* protocol towards the host.                                              *)
(*                                                                         *)
(* GameState objects live in a heap (gsHeap), and so do the board and the  *)
(* move list each of them refers to (boardHeap, movesHeap): copy.deepcopy  *)
(* allocates fresh objects, board.put and moves.append write through a     *)
(* reference.  Floats are scaled by 100: evaluate is filled + 100*diff.    *)
(***************************************************************************)
EXTENDS Integers, Sequences, FiniteSets, TLC

\* ------------------------------------------------------------------ sizes

\* board.N, board.region_height(), board.region_width() of the host board
N == 4
RegionHeight == 2
RegionWidth == 2
\* SudokuBoard.empty
Empty == 0
\* TIME_LIMIT = 0.45 seconds, in hundredths of a second
TIME_LIMIT == 45

\* bounds of the model
MaxDepth == 3
MaxEmpty == 3
TickStep == 23

Rows == 0 .. (N - 1)
Squares == Rows \X Rows
\* Python's None (a move that is absent)
None == << >>
\* float("inf"), above every scaled evaluation the model can produce
Inf == 100000
Root == 0

\* ------------------------------------------------- the host's root states

\* a completed 4x4 grid; root boards are this grid with some cells emptied
Solved == << <<1, 2, 3, 4>>,
             <<3, 4, 1, 2>>,
             <<2, 1, 4, 3>>,
             <<4, 3, 2, 1>> >>

HoleSquares == { <<0, 0>>, <<0, 1>>, <<2, 0>>, <<2, 1>>, <<0, 3>> }

BoardWithHoles(holes) ==
    [sq \in Squares |-> IF sq \in holes THEN Empty ELSE Solved[sq[1] + 1][sq[2] + 1]]

\* all squares in row-major order: [(i, j) for i in range(N) for j in range(N)]
AllSquaresList == [k \in 1 .. (N * N) |-> << (k - 1) \div N, (k - 1) % N >>]

Unrestricted == [restricted |-> FALSE, squares |-> << >>]
Restricted(sqs) == [restricted |-> TRUE, squares |-> sqs]

\* what the host hands in besides the board: mover, scores, taboo list and the
\* answer player_squares() gives for each player
Scenarios ==
    { [current_player |-> 1, scores |-> <<0, 0>>, taboo |-> {},
       allowed |-> <<Unrestricted, Unrestricted>>],
      [current_player |-> 2, scores |-> <<3, 1>>, taboo |-> { <<0, 3, 4>> },
       allowed |-> <<Unrestricted, Unrestricted>>],
      [current_player |-> 1, scores |-> <<1, 2>>, taboo |-> { <<0, 0, 2>> },
       allowed |-> << Restricted(<< <<2, 1>>, <<0, 0>>, <<0, 1>>, <<1, 1>> >>),
                      Restricted(<< <<0, 1>>, <<2, 0>>, <<0, 3>> >>) >>],
      [current_player |-> 2, scores |-> <<0, 0>>, taboo |-> {},
       allowed |-> << Restricted(<< <<0, 0>>, <<2, 0>> >>),
                      Restricted(<< <<0, 0>>, <<0, 1>>, <<2, 0>>, <<2, 1>> >>) >>],
      [current_player |-> 1, scores |-> <<0, 0>>, taboo |-> { <<0, 3, 4>>, <<0, 0, 1>> },
       allowed |-> << Restricted(<< <<0, 3>>, <<0, 0>> >>), Unrestricted >>] }

\* ---------------------------------------------------------- pure helpers

RECURSIVE SeqToSet(_)
SeqToSet(s) == IF s = << >> THEN {} ELSE {Head(s)} \cup SeqToSet(Tail(s))

Max(a, b) == IF a >= b THEN a ELSE b
Min(a, b) == IF a <= b THEN a ELSE b

\* row_has_value(i, value) on board b
row_has_value(b, i, value) ==
    \E col \in Rows : b[<<i, col>>] # Empty /\ b[<<i, col>>] = value

\* col_has_value(j, value) on board b
col_has_value(b, j, value) ==
    \E row \in Rows : b[<<row, j>>] # Empty /\ b[<<row, j>>] = value

\* the cells of the region of (i, j)
BlockCells(i, j) ==
    LET bi == (i \div RegionHeight) * RegionHeight
        bj == (j \div RegionWidth) * RegionWidth
    IN  { <<r, c>> : r \in bi .. (bi + RegionHeight - 1), c \in bj .. (bj + RegionWidth - 1) }

\* block_has_value(i, j, value) on board b
block_has_value(b, i, j, value) ==
    \E sq \in BlockCells(i, j) : b[sq] # Empty /\ b[sq] = value

\* is_legal_move without the column check (lines 70-71 left out)
is_legal_move_NoColumn(b, allowedList, taboo, i, j, value) ==
    /\ <<i, j>> \in SeqToSet(allowedList)
    /\ b[<<i, j>>] = Empty
    /\ 1 <= value /\ value <= N
    /\ ~\E t \in taboo : <<t[1], t[2]>> = <<i, j>> /\ t[3] = value
    /\ ~row_has_value(b, i, value)
    /\ ~block_has_value(b, i, j, value)

\* is_legal_move without the loop over the taboo list (lines 65-67 left out)
is_legal_move_NoTaboo(b, allowedList, taboo, i, j, value) ==
    /\ <<i, j>> \in SeqToSet(allowedList)
    /\ b[<<i, j>>] = Empty
    /\ 1 <= value /\ value <= N
    /\ ~row_has_value(b, i, value)
    /\ ~col_has_value(b, j, value)
    /\ ~block_has_value(b, i, j, value)

\* is_legal_move(i, j, value): b, allowedList and taboo are the closure's
\* board, allowed and taboo
is_legal_move(b, allowedList, taboo, i, j, value) ==
    IF <<i, j>> \notin SeqToSet(allowedList) THEN FALSE
    ELSE IF b[<<i, j>>] # Empty THEN FALSE
    ELSE IF ~(1 <= value /\ value <= N) THEN FALSE
    ELSE IF \E t \in taboo : <<t[1], t[2]>> = <<i, j>> /\ t[3] = value THEN FALSE
    ELSE IF row_has_value(b, i, value) THEN FALSE
    ELSE IF col_has_value(b, j, value) THEN FALSE
    ELSE IF block_has_value(b, i, j, value) THEN FALSE
    ELSE TRUE

\* move_score(i, j, value) on board b
move_score(b, i, j, value) ==
    LET rowPart == Cardinality({col \in Rows : col = j \/ b[<<i, col>>] # Empty})
        colPart == Cardinality({row \in Rows : row # i /\ b[<<row, j>>] # Empty})
        blockPart == Cardinality({sq \in BlockCells(i, j) : sq = <<i, j>> \/ b[sq] # Empty})
    IN  rowPart + colPart + blockPart

\* the values 1..N that pass is_legal_move on one square, ascending
RECURSIVE LegalValuesFrom(_, _, _, _, _)
LegalValuesFrom(b, allowedList, taboo, sq, v) ==
    IF v > N THEN << >>
    ELSE (IF is_legal_move(b, allowedList, taboo, sq[1], sq[2], v)
          THEN << <<sq[1], sq[2], v>> >> ELSE << >>)
         \o LegalValuesFrom(b, allowedList, taboo, sq, v + 1)

\* the enumeration loop shared by compute_best_move and alpha_beta: for each
\* square of `squares` that is empty on nodeBoard, each value passing
\* is_legal_move (which reads closureBoard and closureAllowed)
RECURSIVE CollectMoves(_, _, _, _, _)
CollectMoves(squares, nodeBoard, closureBoard, closureAllowed, taboo) ==
    IF squares = << >> THEN << >>
    ELSE (IF nodeBoard[Head(squares)] # Empty THEN << >>
          ELSE LegalValuesFrom(closureBoard, closureAllowed, taboo, Head(squares), 1))
         \o CollectMoves(Tail(squares), nodeBoard, closureBoard, closureAllowed, taboo)

\* list.sort(key=..., reverse=True): stable, descending
RECURSIVE InsertDesc(_, _, _)
InsertDesc(sorted, mv, b) ==
    IF sorted = << >> THEN <<mv>>
    ELSE IF move_score(b, Head(sorted)[1], Head(sorted)[2], Head(sorted)[3])
              >= move_score(b, mv[1], mv[2], mv[3])
         THEN <<Head(sorted)>> \o InsertDesc(Tail(sorted), mv, b)
         ELSE <<mv>> \o sorted

RECURSIVE SortDesc(_, _)
SortDesc(moves, b) ==
    IF moves = << >> THEN << >>
    ELSE InsertDesc(SortDesc(SubSeq(moves, 1, Len(moves) - 1), b), moves[Len(moves)], b)

\* list.sort(key=...): stable, ascending
RECURSIVE InsertAsc(_, _, _)
InsertAsc(sorted, mv, b) ==
    IF sorted = << >> THEN <<mv>>
    ELSE IF move_score(b, Head(sorted)[1], Head(sorted)[2], Head(sorted)[3])
              <= move_score(b, mv[1], mv[2], mv[3])
         THEN <<Head(sorted)>> \o InsertAsc(Tail(sorted), mv, b)
         ELSE <<mv>> \o sorted

RECURSIVE SortAsc(_, _)
SortAsc(moves, b) ==
    IF moves = << >> THEN << >>
    ELSE InsertAsc(SortAsc(SubSeq(moves, 1, Len(moves) - 1), b), moves[Len(moves)], b)

\* Move((i, j), v): the host's move object built from an engine tuple
MoveOf(mv) == [square |-> <<mv[1], mv[2]>>, value |-> mv[3]]
\* nothing proposed yet
NoProposal == [square |-> << >>, value |-> 0]
NoRef == -1

\* ------------------------------------------------------------------ state

VARIABLES
    gsHeap,          \* GameState objects: ref -> [board, moves, current_player, scores, taboo, allowed]
    boardHeap,       \* SudokuBoard objects: ref -> grid
    movesHeap,       \* move-history lists: ref -> sequence of Move
    host,            \* what the host handed in, as it was at the call (never written)
    pc,              \* position of compute_best_move
    allowed,         \* the closure's `allowed` list
    legal_moves,     \* the root's legal_moves list
    best_move,       \* the driver's best_move
    final_move,      \* the steady-state loop's final_move
    depth,           \* the driver's depth
    elapsed,         \* time.time() - start_time, hundredths of a second
    stack,           \* active alpha_beta frames, innermost last
    ret,             \* the (value, move) an alpha_beta call has just returned
    proposed,        \* argument of the latest propose_move call
    published,       \* the moves proposed after completed depths, in order
    searched,        \* the depths alpha_beta was called with from the driver
    expanded,        \* the depths whose root call passed its time check
    lateProposed,    \* moves proposed while the budget was already exceeded
    lapsedIn         \* the depth whose root call was active when the budget lapsed, else 0

vars == << gsHeap, boardHeap, movesHeap, host, pc, allowed, legal_moves, best_move,
           final_move, depth, elapsed, stack, ret, proposed, published, searched,
           expanded, lateProposed, lapsedIn >>

heapVars == << gsHeap, boardHeap, movesHeap >>
driverVars == << allowed, legal_moves, best_move, final_move, depth >>
logVars == << proposed, published, searched, expanded, lateProposed, lapsedIn >>

Expired == elapsed > TIME_LIMIT

\* ------------------------------------------------------------- the heap

FreshRef(h) ==
    CHOOSE r \in 0 .. Cardinality(DOMAIN h) :
        r \notin DOMAIN h /\ \A q \in 0 .. (r - 1) : q \in DOMAIN h

Restrict(h, keep) == [r \in (DOMAIN h) \cap keep |-> h[r]]

\* the heaps after the GameState objects `refs` lost their last reference
Release(heaps, refs) ==
    LET gs2 == Restrict(heaps.gs, (DOMAIN heaps.gs) \ refs)
    IN  [gs |-> gs2,
         board |-> Restrict(heaps.board, {gs2[r].board : r \in DOMAIN gs2}),
         moves |-> Restrict(heaps.moves, {gs2[r].moves : r \in DOMAIN gs2})]

\* the board of GameState object g
BoardOf(g) == boardHeap[gsHeap[g].board]

\* gs.player_squares(), with None replaced by every square of the board
\* (lines 24-26 at the root, 152-154 inside alpha_beta)
AllowedList(g) ==
    LET answer == gsHeap[g].allowed[gsHeap[g].current_player]
    IN  IF ~answer.restricted THEN AllSquaresList ELSE answer.squares

\* the closure's `board` and `taboo`: game_state.board and game_state.taboo_moves
ClosureBoard == BoardOf(Root)
ClosureTaboo == gsHeap[Root].taboo

\* evaluate with the score difference taken for the player to move at gs
\* (gs.current_player in place of game_state.current_player at line 137)
evaluate_MoverRelative(g) ==
    LET filled == Cardinality({sq \in Squares : BoardOf(g)[sq] # Empty})
        mover == gsHeap[g].current_player
        score_diff == gsHeap[g].scores[mover] - gsHeap[g].scores[3 - mover]
    IN  filled + 100 * score_diff

\* evaluate(gs), times 100
evaluate(g) ==
    LET filled == Cardinality({sq \in Squares : BoardOf(g)[sq] # Empty})
        rootPlayer == gsHeap[Root].current_player
        score_diff == gsHeap[g].scores[rootPlayer] - gsHeap[g].scores[3 - rootPlayer]
    IN  filled + 100 * score_diff

\* apply_move_to_state with copy.copy in place of copy.deepcopy: the child is a
\* new GameState that shares its parent's board and move list
apply_move_to_state_Shallow(heaps, g, mv) ==
    LET ref == FreshRef(heaps.gs)
        parent == heaps.gs[g]
        board2 == [heaps.board EXCEPT ![parent.board] = [@ EXCEPT ![<<mv[1], mv[2]>>] = mv[3]]]
        moves2 == [heaps.moves EXCEPT ![parent.moves] = Append(@, MoveOf(mv))]
        child == [parent EXCEPT !.current_player = 3 - parent.current_player]
    IN  [gs |-> heaps.gs @@ (ref :> child), board |-> board2, moves |-> moves2, child |-> ref]

\* apply_move_to_state without child.moves.append (line 128 left out)
apply_move_to_state_NoAppend(heaps, g, mv) ==
    LET ref == FreshRef(heaps.gs)
        bref == FreshRef(heaps.board)
        mref == FreshRef(heaps.moves)
        parent == heaps.gs[g]
        copied == [parent EXCEPT !.board = bref, !.moves = mref]
        board1 == heaps.board @@ (bref :> heaps.board[parent.board])
        moves1 == heaps.moves @@ (mref :> heaps.moves[parent.moves])
        board2 == [board1 EXCEPT ![copied.board] = [@ EXCEPT ![<<mv[1], mv[2]>>] = mv[3]]]
        child == [copied EXCEPT !.current_player = 3 - parent.current_player]
    IN  [gs |-> heaps.gs @@ (ref :> child), board |-> board2, moves |-> moves1, child |-> ref]

\* apply_move_to_state(gs, mv) on the heaps: the heaps afterwards and the child
apply_move_to_state(heaps, g, mv) ==
    LET ref == FreshRef(heaps.gs)
        bref == FreshRef(heaps.board)
        mref == FreshRef(heaps.moves)
        parent == heaps.gs[g]
        \* child = copy.deepcopy(gs)
        copied == [parent EXCEPT !.board = bref, !.moves = mref]
        board1 == heaps.board @@ (bref :> heaps.board[parent.board])
        moves1 == heaps.moves @@ (mref :> heaps.moves[parent.moves])
        \* child.board.put((ri, rj), rv)
        board2 == [board1 EXCEPT ![copied.board] = [@ EXCEPT ![<<mv[1], mv[2]>>] = mv[3]]]
        \* child.moves.append(Move((ri, rj), rv))
        moves2 == [moves1 EXCEPT ![copied.moves] = Append(@, MoveOf(mv))]
        \* child.current_player = 3 - gs.current_player
        child == [copied EXCEPT !.current_player = 3 - parent.current_player]
    IN  [gs |-> heaps.gs @@ (ref :> child), board |-> board2, moves |-> moves2, child |-> ref]

Heaps == [gs |-> gsHeap, board |-> boardHeap, moves |-> movesHeap]

\* ------------------------------------------------------------ the driver

Init ==
    \E holes \in SUBSET HoleSquares, sc \in Scenarios :
        /\ Cardinality(holes) <= MaxEmpty
        /\ gsHeap = (Root :> [board |-> 0, moves |-> 0,
                              current_player |-> sc.current_player,
                              scores |-> sc.scores, taboo |-> sc.taboo,
                              allowed |-> sc.allowed])
        /\ boardHeap = (0 :> BoardWithHoles(holes))
        /\ movesHeap = (0 :> << >>)
        /\ host = [board |-> BoardWithHoles(holes), moves |-> << >>,
                   current_player |-> sc.current_player, scores |-> sc.scores,
                   taboo |-> sc.taboo, allowed |-> sc.allowed]
        /\ pc = "start"
        /\ allowed = << >>
        /\ legal_moves = << >>
        /\ best_move = None
        /\ final_move = NoProposal
        /\ depth = 0
        /\ elapsed = 0
        /\ stack = << >>
        /\ ret = << >>
        /\ proposed = NoProposal
        /\ published = << >>
        /\ searched = << >>
        /\ expanded = << >>
        /\ lateProposed = {}
        /\ lapsedIn = 0

\* self.propose_move(m)
Propose(m) ==
    /\ proposed' = m
    /\ lateProposed' = IF Expired THEN lateProposed \cup {m} ELSE lateProposed

\* CollectLegalMoves without `if not legal_moves: return` (lines 118-119 left out)
CollectLegalMoves_NoReturn ==
    /\ pc = "start"
    /\ allowed' = AllowedList(Root)
    /\ legal_moves' = CollectMoves(allowed', ClosureBoard, ClosureBoard, allowed', ClosureTaboo)
    /\ pc' = "fallback"
    /\ elapsed' = 0
    /\ UNCHANGED << heapVars, host, best_move, final_move, depth, stack, ret, logVars >>

\* lines 20-143: allowed, the legal_moves list, the early return, start_time
CollectLegalMoves ==
    /\ pc = "start"
    /\ allowed' = AllowedList(Root)
    /\ legal_moves' = CollectMoves(allowed', ClosureBoard, ClosureBoard, allowed', ClosureTaboo)
    /\ pc' = IF legal_moves' = << >> THEN "returned" ELSE "fallback"
    /\ elapsed' = 0
    /\ UNCHANGED << heapVars, host, best_move, final_move, depth, stack, ret, logVars >>

\* Fallback without the propose_move call of line 202
Fallback_Silent ==
    /\ pc = "fallback"
    /\ \E k \in 1 .. Len(legal_moves) : best_move' = legal_moves[k]
    /\ depth' = 1
    /\ pc' = "loop"
    /\ UNCHANGED << heapVars, host, allowed, legal_moves, final_move, elapsed, stack, ret,
                    logVars >>

\* lines 201-204: random.choice(legal_moves), its proposal, depth = 1
Fallback ==
    /\ pc = "fallback"
    /\ \E k \in 1 .. Len(legal_moves) :
        /\ best_move' = legal_moves[k]
        /\ Propose(MoveOf(legal_moves[k]))
    /\ depth' = 1
    /\ pc' = "loop"
    /\ UNCHANGED << heapVars, host, allowed, legal_moves, final_move, elapsed, stack, ret,
                    published, searched, expanded, lapsedIn >>

\* LoopBreak that also leaves the loop once depth exceeds the number of empty cells
LoopBreak_DepthCap ==
    /\ pc = "loop"
    /\ Expired \/ depth > Cardinality({sq \in Squares : ClosureBoard[sq] = Empty})
    /\ pc' = "final"
    /\ UNCHANGED << heapVars, host, driverVars, elapsed, stack, ret, logVars >>

\* lines 207-208: the budget check at the top of the deepening loop
LoopBreak ==
    /\ pc = "loop"
    /\ Expired
    /\ pc' = "final"
    /\ UNCHANGED << heapVars, host, driverVars, elapsed, stack, ret, logVars >>

\* lines 207, 209: the driver calls alpha_beta(game_state, depth, -inf, inf, True)
LoopSearch ==
    /\ pc = "loop"
    /\ ~Expired
    /\ depth <= MaxDepth
    /\ stack' = << [gs |-> Root, depth |-> depth, alpha |-> -Inf, beta |-> Inf,
                    maximizing |-> TRUE, pc |-> "entry", next_moves |-> << >>, idx |-> 0,
                    value |-> 0, best_move |-> None, child |-> NoRef, fresh |-> NoRef] >>
    /\ searched' = Append(searched, depth)
    /\ pc' = "search"
    /\ UNCHANGED << heapVars, host, driverVars, elapsed, ret, proposed, published,
                    expanded, lateProposed, lapsedIn >>

\* ------------------------------------------------------------ alpha_beta

Top == stack[Len(stack)]
SetTop(f) == [stack EXCEPT ![Len(stack)] = f]
Pop == SubSeq(stack, 1, Len(stack) - 1)

\* the GameState objects a frame's locals `child` hold
FrameRefs(f) == {f.child, f.fresh} \ {NoRef}

\* lines 151-161: next_moves of the node gs, in enumeration order
NextMoves(g) ==
    CollectMoves(AllowedList(g), BoardOf(g), ClosureBoard, allowed, ClosureTaboo)

\* SortMoves that moves the driver's current best_move to the front of the
\* sorted candidates
SortMoves_BestFirst(moves, maximizing) ==
    LET sorted == IF maximizing THEN SortDesc(moves, ClosureBoard)
                  ELSE SortAsc(moves, ClosureBoard)
    IN  IF best_move \in SeqToSet(sorted)
        THEN << best_move >> \o SelectSeq(sorted, LAMBDA mv : mv # best_move)
        ELSE sorted

\* lines 171 and 186: next_moves.sort by move_score, descending when maximizing
SortMoves(moves, maximizing) ==
    IF maximizing THEN SortDesc(moves, ClosureBoard) ELSE SortAsc(moves, ClosureBoard)

\* AbTimeout that ends the call as a leaf (return evaluate(gs), None) instead of raising
AbTimeout_AsLeaf ==
    /\ pc = "search"
    /\ stack # << >>
    /\ Top.pc = "entry"
    /\ Expired
    /\ ret' = << [value |-> evaluate(Top.gs), move |-> None] >>
    /\ stack' = Pop
    /\ UNCHANGED << heapVars, host, driverVars, elapsed, pc, logVars >>

\* lines 147-148: the budget check at the entry of a call raises TimeoutError
AbTimeout ==
    /\ pc = "search"
    /\ stack # << >>
    /\ Top.pc = "entry"
    /\ Expired
    /\ pc' = "raising"
    /\ UNCHANGED << heapVars, host, driverVars, elapsed, stack, ret, logVars >>

\* lines 147-171, 185-186: a call that passes the check enumerates its moves,
\* returns the evaluation at a leaf, and otherwise sorts and starts its loop
AbEnter ==
    /\ pc = "search"
    /\ stack # << >>
    /\ Top.pc = "entry"
    /\ ~Expired
    /\ LET moves == NextMoves(Top.gs)
       IN  IF Top.depth = 0 \/ moves = << >>
           THEN /\ ret' = << [value |-> evaluate(Top.gs), move |-> None] >>
                /\ stack' = Pop
           ELSE /\ ret' = ret
                /\ stack' = SetTop([Top EXCEPT !.next_moves = SortMoves(moves, Top.maximizing),
                                               !.idx = 1,
                                               !.value = IF Top.maximizing THEN -Inf ELSE Inf,
                                               !.best_move = None,
                                               !.pc = "loop"])
    /\ expanded' = IF Len(stack) = 1 THEN Append(expanded, Top.depth) ELSE expanded
    /\ UNCHANGED << heapVars, host, driverVars, elapsed, pc, proposed, published,
                    searched, lateProposed, lapsedIn >>

\* lines 173-174 / 188-189: apply_move_to_state(gs, mv) builds the next child
AbApply ==
    /\ pc = "search"
    /\ stack # << >>
    /\ Top.pc = "loop"
    /\ Top.idx <= Len(Top.next_moves)
    /\ LET made == apply_move_to_state(Heaps, Top.gs, Top.next_moves[Top.idx])
       IN  /\ gsHeap' = made.gs
           /\ boardHeap' = made.board
           /\ movesHeap' = made.moves
           /\ stack' = SetTop([Top EXCEPT !.fresh = made.child, !.pc = "bind"])
    /\ UNCHANGED << host, driverVars, elapsed, pc, ret, logVars >>

\* lines 174-175 / 189-190: `child` is rebound (the previous child is dropped)
\* and alpha_beta(child, depth - 1, alpha, beta, not maximizing) is called
AbRecurse ==
    /\ pc = "search"
    /\ stack # << >>
    /\ Top.pc = "bind"
    /\ LET after == Release(Heaps, {Top.child} \ {NoRef})
       IN  /\ gsHeap' = after.gs
           /\ boardHeap' = after.board
           /\ movesHeap' = after.moves
    /\ stack' = Append(SetTop([Top EXCEPT !.child = Top.fresh, !.fresh = NoRef, !.pc = "call"]),
                       [gs |-> Top.fresh, depth |-> Top.depth - 1, alpha |-> Top.alpha,
                        beta |-> Top.beta, maximizing |-> ~Top.maximizing, pc |-> "entry",
                        next_moves |-> << >>, idx |-> 0, value |-> 0, best_move |-> None,
                        child |-> NoRef, fresh |-> NoRef])
    /\ UNCHANGED << host, driverVars, elapsed, pc, ret, logVars >>

\* AbAfterChild with `>=` / `<=` in place of the strict comparisons of lines
\* 177 and 192: among equal children the last one is kept
AbAfterChild_LastBest ==
    /\ pc = "search"
    /\ stack # << >>
    /\ Top.pc = "call"
    /\ ret # << >>
    /\ LET score == ret[1].value
           mv == Top.next_moves[Top.idx]
           better == IF Top.maximizing THEN score >= Top.value ELSE score <= Top.value
           value2 == IF better THEN score ELSE Top.value
           best2 == IF better THEN mv ELSE Top.best_move
           alpha2 == IF Top.maximizing THEN Max(Top.alpha, value2) ELSE Top.alpha
           beta2 == IF Top.maximizing THEN Top.beta ELSE Min(Top.beta, value2)
       IN  stack' = SetTop([Top EXCEPT !.value = value2, !.best_move = best2,
                                       !.alpha = alpha2, !.beta = beta2,
                                       !.idx = IF alpha2 >= beta2 THEN Len(Top.next_moves) + 1
                                               ELSE Top.idx + 1,
                                       !.pc = "loop"])
    /\ ret' = << >>
    /\ UNCHANGED << heapVars, host, driverVars, elapsed, pc, logVars >>

\* lines 176-181 / 191-196: the child's score updates value, best_move and the
\* window; alpha >= beta leaves the loop
AbAfterChild ==
    /\ pc = "search"
    /\ stack # << >>
    /\ Top.pc = "call"
    /\ ret # << >>
    /\ LET score == ret[1].value
           mv == Top.next_moves[Top.idx]
           better == IF Top.maximizing THEN score > Top.value ELSE score < Top.value
           value2 == IF better THEN score ELSE Top.value
           best2 == IF better THEN mv ELSE Top.best_move
           alpha2 == IF Top.maximizing THEN Max(Top.alpha, value2) ELSE Top.alpha
           beta2 == IF Top.maximizing THEN Top.beta ELSE Min(Top.beta, value2)
       IN  stack' = SetTop([Top EXCEPT !.value = value2, !.best_move = best2,
                                       !.alpha = alpha2, !.beta = beta2,
                                       !.idx = IF alpha2 >= beta2 THEN Len(Top.next_moves) + 1
                                               ELSE Top.idx + 1,
                                       !.pc = "loop"])
    /\ ret' = << >>
    /\ UNCHANGED << heapVars, host, driverVars, elapsed, pc, logVars >>

\* lines 182 / 197: return value, best_move; the frame's child is dropped
AbReturn ==
    /\ pc = "search"
    /\ stack # << >>
    /\ Top.pc = "loop"
    /\ Top.idx > Len(Top.next_moves)
    /\ ret' = << [value |-> Top.value, move |-> Top.best_move] >>
    /\ LET after == Release(Heaps, FrameRefs(Top))
       IN  /\ gsHeap' = after.gs
           /\ boardHeap' = after.board
           /\ movesHeap' = after.moves
    /\ stack' = Pop
    /\ UNCHANGED << host, driverVars, elapsed, pc, logVars >>

\* TimeoutError propagates out of one more active frame
Unwind ==
    /\ pc = "raising"
    /\ stack # << >>
    /\ LET after == Release(Heaps, FrameRefs(Top))
       IN  /\ gsHeap' = after.gs
           /\ boardHeap' = after.board
           /\ movesHeap' = after.moves
    /\ stack' = Pop
    /\ UNCHANGED << host, driverVars, elapsed, pc, ret, logVars >>

\* lines 213-214: except TimeoutError: break
Catch ==
    /\ pc = "raising"
    /\ stack = << >>
    /\ pc' = "final"
    /\ UNCHANGED << heapVars, host, driverVars, elapsed, stack, ret, logVars >>

\* DepthDone that adopts the depth's move without the propose_move call of line 212
DepthDone_NoPropose ==
    /\ pc = "search"
    /\ stack = << >>
    /\ ret # << >>
    /\ best_move' = IF ret[1].move # None THEN ret[1].move ELSE best_move
    /\ depth' = depth + 1
    /\ ret' = << >>
    /\ pc' = "loop"
    /\ UNCHANGED << heapVars, host, allowed, legal_moves, final_move, elapsed, stack,
                    logVars >>

\* lines 209-215: the root call returned; its move is adopted and proposed
DepthDone ==
    /\ pc = "search"
    /\ stack = << >>
    /\ ret # << >>
    /\ IF ret[1].move # None
       THEN /\ best_move' = ret[1].move
            /\ Propose(MoveOf(ret[1].move))
            /\ published' = Append(published, MoveOf(ret[1].move))
       ELSE UNCHANGED << best_move, proposed, lateProposed, published >>
    /\ depth' = depth + 1
    /\ ret' = << >>
    /\ pc' = "loop"
    /\ UNCHANGED << heapVars, host, allowed, legal_moves, final_move, elapsed, stack,
                    searched, expanded, lapsedIn >>

\* Final that republishes the head of legal_moves instead of best_move
Final_FirstLegal ==
    /\ pc = "final"
    /\ final_move' = MoveOf(legal_moves[1])
    /\ pc' = "sleep"
    /\ UNCHANGED << heapVars, host, allowed, legal_moves, best_move, depth, elapsed,
                    stack, ret, logVars >>

\* line 219: final_move
Final ==
    /\ pc = "final"
    /\ final_move' = MoveOf(best_move)
    /\ pc' = "sleep"
    /\ UNCHANGED << heapVars, host, allowed, legal_moves, best_move, depth, elapsed,
                    stack, ret, logVars >>

\* line 221: time.sleep(0.1)
Sleep ==
    /\ pc = "sleep"
    /\ pc' = "republish"
    /\ UNCHANGED << heapVars, host, driverVars, elapsed, stack, ret, logVars >>

\* Republish that proposes the head of legal_moves instead of final_move
Republish_FirstLegal ==
    /\ pc = "republish"
    /\ Propose(MoveOf(legal_moves[1]))
    /\ pc' = "sleep"
    /\ UNCHANGED << heapVars, host, driverVars, elapsed, stack, ret, published,
                    searched, expanded, lapsedIn >>

\* line 222: self.propose_move(final_move)
Republish ==
    /\ pc = "republish"
    /\ Propose(final_move)
    /\ pc' = "sleep"
    /\ UNCHANGED << heapVars, host, driverVars, elapsed, stack, ret, published,
                    searched, expanded, lapsedIn >>

\* the wall clock advances (time.time() read at lines 147 and 207)
Tick ==
    /\ pc \notin {"start", "returned"}
    /\ elapsed <= TIME_LIMIT
    /\ elapsed' = elapsed + TickStep
    /\ lapsedIn' = IF elapsed' > TIME_LIMIT /\ pc = "search" /\ stack # << >>
                   THEN depth ELSE lapsedIn
    /\ UNCHANGED << heapVars, host, driverVars, pc, stack, ret, proposed, published,
                    searched, expanded, lateProposed >>

Next ==
    \/ CollectLegalMoves
    \/ Fallback
    \/ LoopBreak
    \/ LoopSearch
    \/ AbTimeout
    \/ AbEnter
    \/ AbApply
    \/ AbRecurse
    \/ AbAfterChild
    \/ AbReturn
    \/ Unwind
    \/ Catch
    \/ DepthDone
    \/ Final
    \/ Sleep
    \/ Republish
    \/ Tick

Spec == Init /\ [][Next]_vars

\* the engine is a running sequential process: once it stands at line 219, 221
\* or 222 it executes that line
FairSpec == Spec /\ WF_vars(Final) /\ WF_vars(Sleep) /\ WF_vars(Republish)

\* a line of compute_best_move other than the entry of an alpha_beta call executes
Proceed ==
    \/ CollectLegalMoves
    \/ Fallback
    \/ LoopBreak
    \/ LoopSearch
    \/ AbTimeout
    \/ AbApply
    \/ AbRecurse
    \/ AbAfterChild
    \/ AbReturn
    \/ Unwind
    \/ Catch
    \/ DepthDone
    \/ Final
    \/ Sleep
    \/ Republish

\* the states in which AbEnter can be taken (its guard; its result always exists)
AbEnterEnabled ==
    /\ pc = "search"
    /\ stack # << >>
    /\ Top.pc = "entry"
    /\ ~Expired

\* the engine is a running sequential process, so the line it stands at is
\* executed, and the wall clock advances (weak fairness of Proceed, of AbEnter,
\* written with its guard, and of Tick)
LiveSpec ==
    /\ Spec
    /\ WF_vars(Proceed)
    /\ ([]<>(~AbEnterEnabled) \/ []<><<AbEnter>>_vars)
    /\ WF_vars(Tick)

\* ------------------------------------------------- legality at the root

\* the squares the root's mover may play, as the host states them
HostAllowed ==
    LET answer == host.allowed[host.current_player]
    IN  IF answer.restricted THEN SeqToSet(answer.squares) ELSE Squares

\* value v occurs in the row, the column or the region of sq on board b
Occurs(b, sq, v) ==
    \/ \E c \in Rows : b[<<sq[1], c>>] = v
    \/ \E r \in Rows : b[<<r, sq[2]>>] = v
    \/ \E r \in Rows, c \in Rows :
          /\ r \div RegionHeight = sq[1] \div RegionHeight
          /\ c \div RegionWidth = sq[2] \div RegionWidth
          /\ b[<<r, c>>] = v

\* the five conditions of a legal placement in the state the host handed in
HostLegal(sq, v) ==
    /\ sq \in HostAllowed
    /\ sq \in Squares
    /\ host.board[sq] = Empty
    /\ v \in 1 .. N
    /\ <<sq[1], sq[2], v>> \notin host.taboo
    /\ ~Occurs(host.board, sq, v)

\* every (square, value) pair, values just outside 1..N included, that is legal
HostLegalSet ==
    { <<x[1][1], x[1][2], x[2]>> :
        x \in { y \in Squares \X (0 .. (N + 1)) : HostLegal(y[1], y[2]) } }

\* ------------------------------------------------------------------ C1

\* C1: every move passed to propose_move (fallback, per-depth result, steady
\* state republication; `proposed` is rewritten by each call) is legal in the
\* root state the host handed in: allowed square, empty cell, value in 1..N,
\* not taboo, value absent from the square's row, column and region.
C1_ProposalsLegalAtRoot ==
    proposed # NoProposal => HostLegal(proposed.square, proposed.value)

\* a republication in steady state after at least two completed depths
C1_Witness ==
    /\ pc = "sleep"
    /\ proposed = final_move
    /\ Len(published) >= 2
    /\ HostLegal(proposed.square, proposed.value)

\* ------------------------------------------------------------------ C2

\* C2: when the root has no legal move (board full, or every candidate of every
\* empty allowed cell blocked by a conflict or a taboo entry) the engine makes
\* no propose_move call, starts no search, and returns.
C2_NoLegalMoveSilence ==
    HostLegalSet = {} =>
        /\ proposed = NoProposal
        /\ searched = << >>
        /\ stack = << >>
        /\ pc \in {"start", "returned"}

\* the engine has returned on a board that still has an empty cell
C2_Witness ==
    /\ HostLegalSet = {}
    /\ pc = "returned"
    /\ \E sq \in Squares : host.board[sq] = Empty

\* ------------------------------------------------------------------ C3

\* C3: with a legal move at the root, a proposal is made before alpha_beta is
\* first called, that first proposal is a member of the root's legal-move set,
\* and from then on the host always holds a proposal.
C3_FallbackBeforeSearch ==
    /\ (searched # << >> \/ stack # << >>) => proposed # NoProposal
    /\ (HostLegalSet # {} /\ pc \notin {"start", "fallback"}) => proposed # NoProposal
    /\ (proposed # NoProposal /\ searched = << >>) =>
           /\ <<proposed.square[1], proposed.square[2], proposed.value>> \in HostLegalSet
           /\ <<proposed.square[1], proposed.square[2], proposed.value>> \in SeqToSet(legal_moves)

\* the first search is under way and only the fallback has been proposed
C3_Witness ==
    /\ searched = <<1>>
    /\ stack # << >>
    /\ published = << >>
    /\ proposed = MoveOf(best_move)

\* ------------------------------------------------------------------ C4

\* the move the driver last accepted: the latest completed depth's move, or the
\* fallback (the only proposal so far) when no depth has completed
AcceptedMove == IF published = << >> THEN proposed ELSE published[Len(published)]

C4_Step ==
    \* a call entered after the budget lapsed does nothing but raise
    /\ (pc = "search" /\ stack # << >> /\ Top.pc = "entry" /\ Expired) =>
           /\ pc' = "raising"
           /\ stack' = stack
           /\ gsHeap' = gsHeap
    \* the exception leaves one active frame after the other, expanding nothing,
    \* and is caught by the driver only
    /\ pc = "raising" =>
           /\ stack # << >> => (pc' = "raising" /\ stack' = Pop)
           /\ stack = << >> => pc' = "final"
           /\ DOMAIN gsHeap' \subseteq DOMAIN gsHeap
           /\ expanded' = expanded
           /\ searched' = searched
    \* nothing of the truncated depth is adopted or published
    /\ (pc = "raising" \/ pc' = "raising") =>
           /\ best_move' = best_move
           /\ proposed' = proposed
           /\ published' = published
           /\ ret' = << >>
           /\ depth' = depth
    \* what is held afterwards is the last completed depth's move, or the fallback
    /\ (pc = "raising" /\ pc' = "final") =>
           /\ Len(published) = depth - 1
           /\ MoveOf(best_move') = AcceptedMove

\* C4: a timeout detected at the entry of an alpha_beta call aborts the whole
\* depth: the exception unwinds every active frame up to the driver with no
\* further node expanded, nothing of the truncated depth is proposed or adopted,
\* and the move held afterwards is that of the last completed depth (or the
\* fallback).
C4_TimeoutAbortsDepth == [][C4_Step]_vars

\* a timeout raised in a nested call of a depth >= 2 search
C4_Witness ==
    /\ pc = "raising"
    /\ Len(stack) >= 2
    /\ depth >= 2
    /\ published # << >>

\* ------------------------------------------------------------------ C5

Steady == pc \in {"sleep", "republish"}

C5_Step ==
    \* no root call passes its time check once the budget is exceeded
    /\ Expired => expanded' = expanded
    \* the steady-state loop is never left and republishes final_move
    /\ Steady =>
           /\ pc' \in {"sleep", "republish"}
           /\ final_move' = final_move
           /\ (pc = "republish" /\ pc' = "sleep") => proposed' = final_move

C5_State ==
    \* every proposal made with the budget exceeded carries the accepted move
    /\ lateProposed \subseteq {AcceptedMove}
    /\ Steady => (final_move = AcceptedMove /\ final_move = MoveOf(best_move))

\* C5: once the budget is exceeded no further depth is started (no root call
\* passes its entry check), every propose_move call from then on carries one
\* and the same move, the last accepted one, and the engine republishes it for
\* ever without returning.
C5_SteadyRepublish ==
    /\ [][C5_Step]_vars
    /\ []C5_State
    /\ [](pc = "final" => <>Steady)
    /\ [](Steady => []<>(pc = "sleep" /\ proposed = final_move))

\* steady state after a completed depth, a proposal made past the budget
C5_Witness ==
    /\ pc = "sleep"
    /\ Expired
    /\ published # << >>
    /\ lateProposed = {final_move}

\* ------------------------------------------------------------------ C6

C6_State ==
    \* depths are searched in the order 1, 2, 3, ...
    /\ searched = [k \in 1 .. Len(searched) |-> k]
    \* before depth d is searched, depths 1 .. d-1 each published once
    /\ pc = "loop" => (Len(searched) = depth - 1 /\ Len(published) = depth - 1)
    /\ pc \in {"search", "raising"} => (Len(searched) = depth /\ Len(published) = depth - 1)

C6_Step ==
    \* the completed depth's move is proposed once and replaces best_move
    /\ (pc = "search" /\ stack = << >> /\ ret # << >> /\ elapsed' = elapsed) =>
           /\ ret[1].move # None
           /\ published' = Append(published, MoveOf(ret[1].move))
           /\ proposed' = MoveOf(ret[1].move)
           /\ best_move' = ret[1].move
           /\ depth' = depth + 1
           /\ searched' = searched
    \* a per-depth publication is made by a completed depth only
    /\ published' # published => (pc = "search" /\ stack = << >> /\ ret # << >>)
    \* the next depth begins after that publication
    /\ searched' # searched =>
           (searched' = Append(searched, depth) /\ Len(published) = depth - 1)

\* C6: every depth d = 1, 2, 3, ... that completes is followed by exactly one
\* propose_move call carrying that depth's move, made before depth d+1 begins
\* and replacing the held best move; depths run in increasing order, none
\* skipped or repeated.
C6_PublishPerDepth == [][C6_Step]_vars /\ []C6_State

\* the third depth is searched after two publications
C6_Witness ==
    /\ pc = "search"
    /\ depth = 3
    /\ Len(published) = 2
    /\ proposed = published[2]

\* ------------------------------------------------------------------ C7

\* the squares a player may play, in the order the host lists them
PlayerList(player) ==
    IF host.allowed[player].restricted THEN host.allowed[player].squares ELSE AllSquaresList

\* a legal placement of the game for `player` on board b
GameLegal(b, player, sq, v) ==
    /\ sq \in SeqToSet(PlayerList(player))
    /\ b[sq] = Empty
    /\ v \in 1 .. N
    /\ <<sq[1], sq[2], v>> \notin host.taboo
    /\ ~Occurs(b, sq, v)

\* the game's legal moves of `player` on b: squares in list order, values ascending
RECURSIVE GameMovesFrom(_, _, _)
GameMovesFrom(b, player, squares) ==
    IF squares = << >> THEN << >>
    ELSE LET sq == Head(squares)
             IsLegalHere(mv) == GameLegal(b, player, sq, mv[3])
         IN  SelectSeq([v \in 1 .. N |-> <<sq[1], sq[2], v>>], IsLegalHere)
                 \o GameMovesFrom(b, player, Tail(squares))

GameMoves(b, player) == GameMovesFrom(b, player, PlayerList(player))

\* the leaf evaluation on a board, scores as the host gave them
LeafValue(b) ==
    Cardinality({sq \in Squares : b[sq] # Empty})
        + 100 * (host.scores[host.current_player] - host.scores[3 - host.current_player])

\* plain minimax to depth d, no pruning: candidates in move_score order
\* (descending for the maximizer, ascending for the minimizer), first best kept
RECURSIVE GameMinimax(_, _, _, _), GameBest(_, _, _, _, _, _, _)
GameMinimax(b, player, d, maximizing) ==
    LET moves == GameMoves(b, player)
        ordered == IF maximizing THEN SortDesc(moves, host.board) ELSE SortAsc(moves, host.board)
    IN  IF d = 0 \/ moves = << >>
        THEN [value |-> LeafValue(b), move |-> None]
        ELSE GameBest(b, player, d, maximizing, ordered,
                      IF maximizing THEN -Inf ELSE Inf, None)

GameBest(b, player, d, maximizing, rest, value, best) ==
    IF rest = << >> THEN [value |-> value, move |-> best]
    ELSE LET mv == Head(rest)
             child == [b EXCEPT ![<<mv[1], mv[2]>>] = mv[3]]
             score == GameMinimax(child, 3 - player, d - 1, ~maximizing).value
             better == IF maximizing THEN score > value ELSE score < value
         IN  GameBest(b, player, d, maximizing, Tail(rest),
                      IF better THEN score ELSE value, IF better THEN mv ELSE best)

\* C7: the value and move alpha_beta(root, d, -inf, +inf, True) returns equal
\* those of plain minimax to depth d over the game's legal moves at each node,
\* with the same leaf evaluation, candidate order and first-best tie-break.
C7_MatchesGameMinimax ==
    (pc = "search" /\ stack = << >> /\ ret # << >>) =>
        ret[1] = GameMinimax(host.board, host.current_player, depth, TRUE)

\* ------------------------------------------------------------------ C8

\* no value occurs twice in a row, a column or a region of board b
NoDuplicates(b) ==
    \A sq1 \in Squares, sq2 \in Squares :
        (sq1 # sq2 /\ b[sq1] # Empty /\ b[sq1] = b[sq2]) =>
            /\ sq1[1] # sq2[1]
            /\ sq1[2] # sq2[2]
            /\ BlockCells(sq1[1], sq1[2]) # BlockCells(sq2[1], sq2[2])

\* the frames whose next_moves list has been enumerated
Enumerated == { k \in 1 .. Len(stack) : stack[k].pc # "entry" }

\* C8: in the root and in every state of the search tree, each enumerated move
\* targets a cell empty in that state, has a value in 1..N, is not taboo, and
\* duplicates no value in its row, column or region; so no board reached in the
\* search holds a value twice in a row, column or region.
C8_EnumeratedMovesLegal ==
    /\ \A k \in Enumerated :
          \A n \in 1 .. Len(stack[k].next_moves) :
              LET mv == stack[k].next_moves[n]
                  b == BoardOf(stack[k].gs)
              IN  /\ b[<<mv[1], mv[2]>>] = Empty
                  /\ mv[3] \in 1 .. N
                  /\ mv \notin host.taboo
                  /\ ~Occurs(b, <<mv[1], mv[2]>>, mv[3])
    /\ \A r \in DOMAIN boardHeap : NoDuplicates(boardHeap[r])

\* ------------------------------------------------------------------ C9

\* the content of GameState object r in the given heaps
Content(gs, boards, moves, r) ==
    [board |-> boards[gs[r].board], moves |-> moves[gs[r].moves],
     current_player |-> gs[r].current_player, scores |-> gs[r].scores,
     taboo |-> gs[r].taboo, allowed |-> gs[r].allowed]

C9_State ==
    \* the host's state is as it was handed in
    /\ Content(gsHeap, boardHeap, movesHeap, Root) = host
    \* no two states share a board or a move list
    /\ \A r1 \in DOMAIN gsHeap, r2 \in DOMAIN gsHeap :
          r1 # r2 => (gsHeap[r1].board # gsHeap[r2].board /\ gsHeap[r1].moves # gsHeap[r2].moves)

C9_Step ==
    \* a step changes no state that exists before and after it: a move is
    \* written into the newly made child only
    \A r \in (DOMAIN gsHeap) \cap (DOMAIN gsHeap') :
        Content(gsHeap', boardHeap', movesHeap', r) = Content(gsHeap, boardHeap, movesHeap, r)

\* C9: the host's game state is never changed (board, history, scores, mover),
\* every child is an independent clone, and applying a move to a child changes
\* neither its parent nor a sibling; every depth starts from the unmodified root.
C9_RootNeverMutated == [][C9_Step]_vars /\ []C9_State

\* two levels deep, a second child has just been built while its elder sibling
\* still exists
C9_Witness ==
    /\ Len(stack) >= 2
    /\ Top.pc = "bind"
    /\ Top.child # NoRef
    /\ BoardOf(Top.fresh) # BoardOf(Top.child)
    /\ BoardOf(Root) = host.board

\* ------------------------------------------------------------------ C10

Row0Example == <<host.board[<<0, 0>>], host.board[<<0, 1>>], host.board[<<0, 2>>],
                 host.board[<<0, 3>>]>> = <<1, 2, 3, Empty>>

\* C10: the root's legal_moves holds exactly the (square, value) pairs with an
\* allowed square, an empty cell, a value in 1..N, no taboo entry and no
\* occurrence of the value in the square's row, column or region; with row 0 =
\* [1,2,3,0], ((0,3),4) is in it unless taboo (or not allowed) and ((0,3),1..3)
\* are not.
C10_RootLegalMovesExact ==
    pc # "start" =>
        /\ SeqToSet(legal_moves) = HostLegalSet
        /\ Row0Example =>
              /\ <<0, 3, 4>> \in SeqToSet(legal_moves)
                     <=> (<<0, 3, 4>> \notin host.taboo /\ <<0, 3>> \in HostAllowed)
              /\ \A v \in 1 .. 3 : <<0, 3, v>> \notin SeqToSet(legal_moves)

\* row 0 = [1,2,3,0] and ((0,3),4) was collected
C10_Witness ==
    /\ pc # "start"
    /\ Row0Example
    /\ <<0, 3, 4>> \in SeqToSet(legal_moves)
    /\ Len(legal_moves) >= 2

\* ------------------------------------------------------------------ C11

\* the budget lapsed before the depth-1 search completed: before the root call
\* was made, or while it was active (not between its return and line 210)
LapsedBeforeDepth1Done ==
    /\ Expired
    /\ depth <= 1
    /\ published = << >>
    /\ (pc = "search" /\ stack = << >>) => lapsedIn = 1

\* C11 as stated: once the budget is exceeded before the depth-1 search has
\* completed and the fallback stands, no propose_move call carries another move.
C11_FallbackOnlyIfExpiredInDepth1 ==
    [][(LapsedBeforeDepth1Done /\ proposed # NoProposal) => proposed' = proposed]_vars

\* the depth-1 search was cut short: a time check (line 207 or line 147) found
\* the budget exceeded before the depth-1 root call returned
Depth1Aborted == depth = 1 /\ pc \in {"raising", "final", "sleep", "republish"}

C11_Step ==
    Depth1Aborted => (proposed' = proposed /\ published' = << >> /\ depth' = 1)

C11_State ==
    Depth1Aborted =>
        /\ proposed # NoProposal
        /\ proposed = MoveOf(best_move)
        /\ published = << >>
        /\ lateProposed \subseteq {proposed}

\* C11 (amended): when a time check finds the budget exceeded before the
\* depth-1 search has completed, and the root has a legal move, the engine
\* publishes the fallback and no propose_move call ever carries another move.
C11_FallbackOnlyIfDepth1Aborted == [][C11_Step]_vars /\ []C11_State

\* the fallback is republished in steady state after depth 1 was cut short
C11_Witness ==
    /\ Depth1Aborted
    /\ pc = "sleep"
    /\ searched = <<1>>
    /\ lateProposed = {proposed}
    /\ Len(legal_moves) >= 2

\* ------------------------------------------------------------------ C12

\* the candidates of a node when only the side to move's own allowed squares
\* restrict them (conflicts and taboo checked as is_legal_move checks them)
OwnSquaresMoves(g) ==
    CollectMoves(AllowedList(g), BoardOf(g), ClosureBoard, AllowedList(g), ClosureTaboo)

\* C12: at every node of the search the candidate moves are the legal moves of
\* the side to move restricted by that side's own allowed squares only: no
\* allowed empty square is excluded for not being among the root player's
\* allowed squares, and no square outside the mover's allowed squares is included.
C12_OwnAllowedSquaresOnly ==
    \A k \in Enumerated :
        SeqToSet(stack[k].next_moves) = SeqToSet(OwnSquaresMoves(stack[k].gs))

\* ------------------------------------------------------------------ C13

\* the number of non-empty cells of board b among the given cells
FilledIn(b, cells) == Cardinality({sq \in cells : b[sq] # Empty})
RowCells(i) == { <<i, col>> : col \in Rows }
ColCells(j) == { <<row, j>> : row \in Rows }

\* C13: for every empty square (i, j) and value, move_score(i, j, value) is
\* filled(row i) + filled(column j) + filled(region) + 3 on the board it is
\* scored against: the move's own cell counts once in each of the three passes.
C13_MoveScoreCountsCellThrice ==
    Enumerated # {} =>
        \A sq \in Squares, value \in 1 .. N :
            ClosureBoard[sq] = Empty =>
                move_score(ClosureBoard, sq[1], sq[2], value)
                    = FilledIn(ClosureBoard, RowCells(sq[1]))
                      + FilledIn(ClosureBoard, ColCells(sq[2]))
                      + FilledIn(ClosureBoard, BlockCells(sq[1], sq[2])) + 3

\* ------------------------------------------------------------------ C14

\* score[rootPlayer] - score[opponent] of a search state
ScoreDiff(g) ==
    gsHeap[g].scores[host.current_player] - gsHeap[g].scores[3 - host.current_player]

\* C14: evaluate(state) is filledFraction * 0.01 + score differential with the
\* fraction in [0, 1], so the progress term never exceeds 0.01 and a greater
\* score differential always gives a greater evaluation. In integers scaled by
\* 100 * N^2 (evaluate(g) of this module is the code's value times 100).
C14_ProgressIsFraction ==
    pc = "search" =>
        \A a \in DOMAIN gsHeap :
            /\ N * N * evaluate(a)
                   = FilledIn(BoardOf(a), Squares) + 100 * N * N * ScoreDiff(a)
            /\ N * N * (evaluate(a) - 100 * ScoreDiff(a)) <= N * N
            /\ \A b \in DOMAIN gsHeap :
                   ScoreDiff(a) > ScoreDiff(b) => evaluate(a) > evaluate(b)

\* ------------------------------------------------------------------ C15

InDeepening == pc \in {"loop", "search", "raising"}
NumEmpty == Cardinality({sq \in Squares : host.board[sq] = Empty})

C15_Step ==
    \* the loop is left only to line 219, from the check of line 207 or from the
    \* except clause of line 214, and only with the budget exceeded
    /\ (InDeepening /\ ~InDeepening') =>
           /\ Expired
           /\ pc \in {"loop", "raising"}
           /\ pc' = "final"
    \* the timeout is raised only with the budget exceeded
    /\ (pc # "raising" /\ pc' = "raising") => Expired
    \* within budget the loop goes on to the next depth, whatever the depth and
    \* whatever the depths before returned
    /\ (pc = "loop" /\ pc' # "loop") => (Expired \/ (pc' = "search" /\ depth' = depth))
    /\ (pc = "search" /\ pc' = "loop") => depth' = depth + 1

\* C15: the deepening loop is left only through budget exhaustion (the check at
\* the top of the loop or a timeout raised inside the search), never because
\* depth exceeded the number of empty cells or the result stopped changing; and
\* with an advancing clock the engine eventually reaches the steady-state loop.
C15_LeavesLoopOnlyOnTimeout ==
    [][C15_Step]_vars /\ (InDeepening ~> Steady)

\* steady state reached after searching a depth beyond the number of empty
\* cells, two completed depths having returned the same move
C15_Witness ==
    /\ Steady
    /\ \E k \in 1 .. Len(searched) : searched[k] > NumEmpty
    /\ Len(published) >= 2
    /\ published[1] = published[2]

\* ------------------------------------------------------------------ C16

\* the frames that hold a child made from their current candidate move
WithChild == { k \in 1 .. Len(stack) : stack[k].pc \in {"bind", "call"} }
ChildOf(k) == IF stack[k].pc = "bind" THEN stack[k].fresh ELSE stack[k].child
AppliedMove(k) == stack[k].next_moves[stack[k].idx]

\* C16: applying a candidate move (i, j, v) to a search state gives a child that
\* differs from its parent in exactly three ways: cell (i, j), empty in the
\* parent, holds v; the history is the parent's with that move appended; the
\* player to move is the other player. All other cells, the taboo set and both
\* players' scores are unchanged.
C16_ChildDiffersInThreeWays ==
    \A k \in WithChild :
        LET parent == Content(gsHeap, boardHeap, movesHeap, stack[k].gs)
            child == Content(gsHeap, boardHeap, movesHeap, ChildOf(k))
            mv == AppliedMove(k)
            sq == <<mv[1], mv[2]>>
        IN  /\ parent.board[sq] = Empty
            /\ mv[3] \in 1 .. N
            /\ child.board = [parent.board EXCEPT ![sq] = mv[3]]
            /\ child.moves = Append(parent.moves, MoveOf(mv))
            /\ child.current_player = 3 - parent.current_player
            /\ child.scores = parent.scores
            /\ child.taboo = parent.taboo
            /\ child.allowed = parent.allowed

\* a grandchild of the root has just been made by the opponent's move: its
\* history holds two moves and the root's mover is to move again
C16_Witness ==
    /\ Len(stack) = 2
    /\ Top.pc = "bind"
    /\ Len(movesHeap[gsHeap[Top.fresh].moves]) = Len(host.moves) + 2
    /\ gsHeap[Top.fresh].current_player = host.current_player
    /\ gsHeap[Top.gs].current_player = 3 - host.current_player
    /\ host.scores[1] # host.scores[2]

\* ------------------------------------------------------------------ C17

\* the player who initiated the search, and a state's score differential for
\* that player, times 100
RootPlayer == host.current_player
RootDiff(g) == 100 * (gsHeap[g].scores[RootPlayer] - gsHeap[g].scores[3 - RootPlayer])

C17_State ==
    \A k \in 1 .. Len(stack) :
        \* maximizing exactly at the root player's nodes
        /\ stack[k].maximizing <=> (gsHeap[stack[k].gs].current_player = RootPlayer)
        \* plies alternate, starting with the root player
        /\ k = 1 => stack[k].maximizing
        /\ k > 1 => /\ stack[k].maximizing = ~stack[k - 1].maximizing
                    /\ gsHeap[stack[k].gs].current_player
                           = 3 - gsHeap[stack[k - 1].gs].current_player

\* a call returns the evaluation of its state (line 164)
LeafReturn ==
    /\ pc = "search"
    /\ stack # << >>
    /\ Top.pc = "entry"
    /\ Len(stack') < Len(stack)
    /\ ret' # << >>

C17_Step ==
    LeafReturn =>
        ret'[1].value = FilledIn(BoardOf(Top.gs), Squares) + RootDiff(Top.gs)

\* C17: at every node of every search the maximizing flag is true exactly when
\* the player to move there is the root player (plies strictly alternate), and
\* the leaf evaluation's score differential is the root player's score minus
\* the opponent's whoever is to move at the leaf.
C17_MaximizingIsRootPlayer == [][C17_Step]_vars /\ []C17_State

\* three plies down, a leaf with the opponent to move has just been evaluated
\* on unequal scores
C17_Witness ==
    /\ pc = "search"
    /\ Len(stack) = 3
    /\ Top.pc = "call"
    /\ Top.maximizing
    /\ ret # << >>
    /\ ret[1].move = None
    /\ gsHeap[Top.child].current_player = 3 - RootPlayer
    /\ ret[1].value = FilledIn(BoardOf(Top.child), Squares) + RootDiff(Top.child)
    /\ RootDiff(Top.child) # 0

\* ------------------------------------------------------------------ C18

\* the candidates the code enumerates for `player` on board b (is_legal_move
\* on the closure's board, allowed list and taboo set; emptiness on b)
CodeMoves(b, player) == CollectMoves(PlayerList(player), b, host.board, allowed, host.taboo)

\* plain minimax to depth d, no pruning, over the candidates the code
\* enumerates: move_score order, first best kept
RECURSIVE CodeMinimax(_, _, _, _), CodeBest(_, _, _, _, _, _, _)
CodeMinimax(b, player, d, maximizing) ==
    LET moves == CodeMoves(b, player)
        ordered == IF maximizing THEN SortDesc(moves, host.board) ELSE SortAsc(moves, host.board)
    IN  IF d = 0 \/ moves = << >>
        THEN [value |-> LeafValue(b), move |-> None]
        ELSE CodeBest(b, player, d, maximizing, ordered,
                      IF maximizing THEN -Inf ELSE Inf, None)

CodeBest(b, player, d, maximizing, rest, value, best) ==
    IF rest = << >> THEN [value |-> value, move |-> best]
    ELSE LET mv == Head(rest)
             child == [b EXCEPT ![<<mv[1], mv[2]>>] = mv[3]]
             score == CodeMinimax(child, 3 - player, d - 1, ~maximizing).value
             better == IF maximizing THEN score > value ELSE score < value
         IN  CodeBest(b, player, d, maximizing, Tail(rest),
                      IF better THEN score ELSE value, IF better THEN mv ELSE best)

\* a root call has returned and line 210 has not yet run
DepthComplete == pc = "search" /\ stack = << >> /\ ret # << >>

\* the root's candidates in the order line 171 gives them, and the value of
\* the child each leads to, searched to the remaining depth
RootOrder == SortMoves(NextMoves(Root), TRUE)
ChildValue(mv) ==
    CodeMinimax([host.board EXCEPT ![<<mv[1], mv[2]>>] = mv[3]], 3 - RootPlayer,
                depth - 1, FALSE).value
ChildValues == [n \in 1 .. Len(RootOrder) |-> ChildValue(RootOrder[n])]

\* the indices of the greatest entries of a sequence of values, and the first
Attaining(vals) == { n \in DOMAIN vals : \A m \in DOMAIN vals : vals[m] <= vals[n] }
FirstAttaining(vals) == CHOOSE n \in Attaining(vals) : \A m \in Attaining(vals) : n <= m

\* the evaluation k plies below the root, times 100
PlyValue(k) == FilledIn(host.board, Squares) + k + RootDiff(Root)

C18_State ==
    \* the state of the k-th active call is k - 1 plies below the root
    /\ \A k \in 1 .. Len(stack) :
          /\ gsHeap[stack[k].gs].scores = host.scores
          /\ evaluate(stack[k].gs) = PlyValue(k - 1)
    /\ \A k \in WithChild :
          /\ gsHeap[ChildOf(k)].scores = host.scores
          /\ evaluate(ChildOf(k)) = PlyValue(k)
    \* the depth's move is the first root candidate whose child attains the maximum
    /\ DepthComplete =>
          LET vals == ChildValues
              first == FirstAttaining(vals)
          IN  /\ ret[1].move = RootOrder[first]
              /\ ret[1].value = vals[first]
              /\ \E k \in 1 .. depth : ret[1].value = PlyValue(k)

C18_Step ==
    \* all leaves at the same ply evaluate equal
    LeafReturn => ret'[1].value = PlyValue(Len(stack) - 1)

\* C18: applying a move inside the search never changes the scores, so every
\* state k plies below the root evaluates to (filled cells of the root + k) *
\* 0.01 + the root's score differential, all leaves at the same ply evaluate
\* equal, and the move returned for a depth is the first candidate in the
\* root's ordering that attains the maximum.
C18_ValueIsPlyCount == [][C18_Step]_vars /\ []C18_State

\* a depth of two or more has completed on unequal scores, several root
\* candidates attain the maximum and the first of them was returned, while a
\* candidate ordered before it does not attain it
C18_Witness ==
    /\ DepthComplete
    /\ depth >= 2
    /\ RootDiff(Root) # 0
    /\ Cardinality(Attaining(ChildValues)) >= 2
    /\ FirstAttaining(ChildValues) > 1
    /\ ret[1].move = RootOrder[FirstAttaining(ChildValues)]

\* ------------------------------------------------------------------ C19

\* the move a completed depth d publishes, as a function of the root state alone
DepthMove(d) == MoveOf(CodeMinimax(host.board, RootPlayer, d, TRUE).move)

C19_Step ==
    \* the move published for a completed depth is determined by the root state
    \* and the depth, and nothing else is ever added to the published moves
    /\ IF DepthComplete /\ pc' = "loop"
       THEN /\ published' = Append(published, DepthMove(depth))
            /\ Len(published') = depth
            /\ proposed' = DepthMove(depth)
       ELSE published' = published
    \* in steady state only final_move is proposed
    /\ Steady => proposed' \in {proposed, final_move}

C19_State ==
    \* after d >= 1 completed depths the steady-state move is the move of depth d
    /\ (Steady /\ published # << >>) =>
           /\ final_move = published[Len(published)]
           /\ final_move = MoveOf(best_move)
    /\ (pc \in {"loop", "final"} /\ published # << >>) =>
           MoveOf(best_move) = published[Len(published)]

\* C19: randomness affects only the initial fallback: on the same root state
\* and for the same number d >= 1 of completed depths, the move published
\* after each completed depth and the move republished in steady state are the
\* same whatever fallback random.choice picked (they are functions of the root
\* state and the depth).
C19_FallbackChoiceForgotten == [][C19_Step]_vars /\ []C19_State

\* steady state after two completed depths on a root with several legal moves,
\* any of which could have been the fallback: the move of depth 2 is republished
C19_Witness ==
    /\ pc = "republish"
    /\ Len(published) = 2
    /\ Len(legal_moves) >= 3
    /\ final_move = DepthMove(2)
    /\ proposed = final_move
    /\ \E k \in 1 .. Len(legal_moves) : MoveOf(legal_moves[k]) \notin SeqToSet(published)

====
